---- MODULE Spec2Model ----
(***************************************************************************)
(* Reptile habitat manager: the periodic control-and-alerting loop of      *)
(* ReptileHabitatCoordinator (coordinator.py) with its mutators.           *)
(*                                                                         *)
(* Temperatures are whole degrees Fahrenheit (the configured thresholds    *)
(* are whole numbers).  Text (entity states, alert messages) is a sequence *)
(* of one-character strings so that float() and message[:50] are computed. *)
(***************************************************************************)
EXTENDS Integers, Sequences, FiniteSets, TLC

VARIABLES
    automation_enabled,   \* self._automation_enabled
    manual_overrides,     \* self._manual_overrides : dict index -> bool
    last_notifications,   \* self._last_notifications : dict alert_id -> time
    feeding_log,          \* self._feeding_log
    shedding_log,         \* self._shedding_log
    weight_log,           \* self._weight_log
    data,                 \* coordinator.data : the published snapshot
    last_update_success,  \* FALSE after a tick ended in UpdateFailed
    hass_states,          \* the entity states the latest tick read from hass.states
    calls,                \* switch service calls made by the latest tick
    notifications,        \* notify service calls made by the latest tick
    now,                  \* the wall clock, in seconds
    last_op,              \* the entry point that ran last
    care_shared,          \* which care lists of the snapshot are the engine's own list objects
    refresh_requested,    \* async_request_refresh() was called and no refresh has run since
    inflight              \* the coroutines suspended at an await: the run of
                          \* _async_update_data, and the manual switches' async_turn_on

vars == <<automation_enabled, manual_overrides, last_notifications,
          feeding_log, shedding_log, weight_log, data, last_update_success,
          hass_states, calls, notifications, now, last_op,
          care_shared, refresh_requested, inflight>>

----------------------------------------------------------------------------
(* const.py *)

STATUS_OK == "ok"
STATUS_HEATING == "heating"
STATUS_COOLING == "cooling"
STATUS_CRITICAL_LOW == "critical_low"
STATUS_CRITICAL_HIGH == "critical_high"
STATUS_BELOW_TARGET == "below_target"
STATUS_ABOVE_TARGET == "above_target"
STATUS_UNKNOWN == "unknown"
STATUS_MANUAL == "manual"

STATE_ON == <<"o", "n">>
STATE_OFF == <<"o", "f", "f">>

\* timedelta(seconds=DEFAULT_UPDATE_INTERVAL), the period of the scheduled tick
DEFAULT_UPDATE_INTERVAL == 30

\* timedelta(minutes=30) in _send_alert
CooldownMinutes == 30

\* message[:50]
AlertIdLen == 50

----------------------------------------------------------------------------
(* Text and numbers *)

DigitChars == <<"0", "1", "2", "3", "4", "5", "6", "7", "8", "9">>

IsDigit(c) == \E d \in 1..10 : DigitChars[d] = c

DigitVal(c) == (CHOOSE d \in 1..10 : DigitChars[d] = c) - 1

RECURSIVE DigitsVal(_)
DigitsVal(s) ==
    IF s = <<>> THEN 0
    ELSE 10 * DigitsVal(SubSeq(s, 1, Len(s) - 1)) + DigitVal(s[Len(s)])

RECURSIVE IntStr(_)
IntStr(n) ==
    IF n < 10 THEN <<DigitChars[n + 1]>>
    ELSE IntStr(n \div 10) \o <<DigitChars[(n % 10) + 1]>>

\* Python values: None, a float, the float nan
None == [kind |-> "None", val |-> 0]
Float(n) == [kind |-> "float", val |-> n]
NaN == [kind |-> "nan", val |-> 0]
ValueError == [kind |-> "ValueError", val |-> 0]

\* float(text) for the texts an entity state takes here: unsigned decimal
\* digits, "nan", and anything else raises ValueError
ParseFloat(s) ==
    IF s = <<"n", "a", "n">> THEN NaN
    ELSE IF s # <<>> /\ \A k \in 1..Len(s) : IsDigit(s[k]) THEN Float(DigitsVal(s))
    ELSE ValueError

\* f"{temp}" for a float holding a whole number: 75.0 -> "75.0"
FloatStr(t) ==
    IF t.kind = "nan" THEN <<"n", "a", "n">> ELSE IntStr(t.val) \o <<".", "0">>

\* float comparisons: every comparison with nan is false
Le(t, c) == t.kind = "float" /\ t.val <= c
Ge(t, c) == t.kind = "float" /\ t.val >= c
Lt(t, c) == t.kind = "float" /\ t.val < c
Gt(t, c) == t.kind = "float" /\ t.val > c

\* s[:n]
Take(s, n) == IF Len(s) <= n THEN s ELSE SubSeq(s, 1, n)

\* s[-n:]
LastN(s, n) == IF Len(s) <= n THEN s ELSE SubSeq(s, Len(s) - n + 1, Len(s))

\* dict helpers
DictGet(d, k, default) == IF k \in DOMAIN d THEN d[k] ELSE default
DictPut(d, k, v) == [x \in (DOMAIN d) \cup {k} |-> IF x = k THEN v ELSE d[x]]
EmptyDict == [x \in {} |-> FALSE]

----------------------------------------------------------------------------
(* Configuration: the entry created by config_flow.py *)

BaskingSpot == <<"B", "a", "s", "k", "i", "n", "g", " ", "S", "p", "o", "t">>
HeatMat == <<"H", "e", "a", "t", " ", "M", "a", "t">>

CONF_HEAT_SOURCES ==
    [i \in 0..1 |->
        IF i = 0
        THEN [name |-> BaskingSpot, switch_entity |-> "switch.test_basking_heater",
              temp_sensor |-> "sensor.test_basking_temp",
              target_min |-> 85, target_max |-> 95,
              critical_min |-> 75, critical_max |-> 105]
        ELSE [name |-> HeatMat, switch_entity |-> "switch.test_heat_mat",
              temp_sensor |-> "sensor.test_mat_temp",
              target_min |-> 80, target_max |-> 88,
              critical_min |-> 70, critical_max |-> 95]]

Zones == DOMAIN CONF_HEAT_SOURCES

CONF_ATMO ==
    [target_min_temp |-> 75, target_max_temp |-> 85,
     critical_min_temp |-> 65, critical_max_temp |-> 95,
     target_min_humidity |-> 50, target_max_humidity |-> 70,
     critical_min_humidity |-> 30, critical_max_humidity |-> 90]

----------------------------------------------------------------------------
(* hass.states.get(entity_id): None, or a State object with a .state text *)

NoState == [present |-> FALSE, state |-> <<>>]
State(s) == [present |-> TRUE, state |-> s]

Unknown == <<"u", "n", "k", "n", "o", "w", "n">>
Unavailable == <<"u", "n", "a", "v", "a", "i", "l", "a", "b", "l", "e">>

\* as ReadFloat, the except branch storing 0 instead of None
ReadFloat_ZeroOnError(st) ==
    IF st.present /\ st.state \notin {Unknown, Unavailable}
    THEN LET v == ParseFloat(st.state) IN IF v.kind = "ValueError" THEN Float(0) ELSE v
    ELSE None

\* current_temp of _process_heat_source / _process_atmosphere
ReadFloat(st) ==
    IF st.present /\ st.state \notin {Unknown, Unavailable}
    THEN LET v == ParseFloat(st.state) IN IF v.kind = "ValueError" THEN None ELSE v
    ELSE None

\* switch_state and switch_state.state == STATE_ON
ReadIsHeating(st) ==
    IF ~st.present THEN "None"
    ELSE IF st.state = STATE_ON THEN "True" ELSE "False"

Truthy(b) == b = "True"

----------------------------------------------------------------------------
(* Effects of a tick in progress.  eff carries the throttle map, the calls  *)
(* made so far and whether an exception is propagating out of the tick.    *)
(* faults is the set of service targets whose call raises: a switch        *)
(* entity id, or "notify".                                                 *)

NewEff(ln) == [last_notifications |-> ln, calls |-> <<>>,
               notifications |-> <<>>, raised |-> FALSE]

Chars_CRITICAL == <<"C", "R", "I", "T", "I", "C", "A", "L", ":", " ">>
Chars_too_cold == <<" ", "t", "o", "o", " ", "c", "o", "l", "d", ":", " ">>
Chars_too_hot == <<" ", "t", "o", "o", " ", "h", "o", "t", ":", " ">>
Chars_degF == <<"A^", "deg", "F">>
Chars_Tank_temperature == <<"T", "a", "n", "k", " ", "t", "e", "m", "p", "e", "r",
                            "a", "t", "u", "r", "e">>
Chars_Tank_humidity == <<"T", "a", "n", "k", " ", "h", "u", "m", "i", "d", "i", "t", "y">>
Chars_too_low == <<" ", "t", "o", "o", " ", "l", "o", "w", ":", " ">>
Chars_too_high == <<" ", "t", "o", "o", " ", "h", "i", "g", "h", ":", " ">>

TooColdMessage(name, temp) ==
    Chars_CRITICAL \o name \o Chars_too_cold \o FloatStr(temp) \o Chars_degF
TooHotMessage(name, temp) ==
    Chars_CRITICAL \o name \o Chars_too_hot \o FloatStr(temp) \o Chars_degF
TankTempLowMessage(temp) ==
    Chars_CRITICAL \o Chars_Tank_temperature \o Chars_too_low \o FloatStr(temp) \o Chars_degF
TankTempHighMessage(temp) ==
    Chars_CRITICAL \o Chars_Tank_temperature \o Chars_too_high \o FloatStr(temp) \o Chars_degF
TankHumidityLowMessage(h) ==
    Chars_CRITICAL \o Chars_Tank_humidity \o Chars_too_low \o FloatStr(h) \o <<"%">>
TankHumidityHighMessage(h) ==
    Chars_CRITICAL \o Chars_Tank_humidity \o Chars_too_high \o FloatStr(h) \o <<"%">>

\* as SendAlert, with an alert sent exactly the cooldown earlier still suppressing
SendAlert_Inclusive(eff, message, t, faults) ==
    LET alert_id == Take(message, AlertIdLen)
        ln == eff.last_notifications
    IN  IF alert_id \in DOMAIN ln /\ t - ln[alert_id] <= CooldownMinutes * 60
        THEN eff
        ELSE [eff EXCEPT
                !.last_notifications = DictPut(ln, alert_id, t),
                !.notifications = Append(@, [message |-> message,
                                             ok |-> "notify" \notin faults])]

\* as SendAlert, with the time recorded for a suppressed alert as well
SendAlert_RecordSuppressed(eff, message, t, faults) ==
    LET alert_id == Take(message, AlertIdLen)
        ln == eff.last_notifications
    IN  IF alert_id \in DOMAIN ln /\ t - ln[alert_id] < CooldownMinutes * 60
        THEN [eff EXCEPT !.last_notifications = DictPut(ln, alert_id, t)]
        ELSE [eff EXCEPT
                !.last_notifications = DictPut(ln, alert_id, t),
                !.notifications = Append(@, [message |-> message,
                                             ok |-> "notify" \notin faults])]

\* as SendAlert, with a key one character shorter
SendAlert_ShortKey(eff, message, t, faults) ==
    LET alert_id == Take(message, AlertIdLen - 1)
        ln == eff.last_notifications
    IN  IF alert_id \in DOMAIN ln /\ t - ln[alert_id] < CooldownMinutes * 60
        THEN eff
        ELSE [eff EXCEPT
                !.last_notifications = DictPut(ln, alert_id, t),
                !.notifications = Append(@, [message |-> message,
                                             ok |-> "notify" \notin faults])]

\* as SendAlert, with the notifier's exception left to propagate
SendAlert_Raising(eff, message, t, faults) ==
    LET alert_id == Take(message, AlertIdLen)
        ln == eff.last_notifications
    IN  IF alert_id \in DOMAIN ln /\ t - ln[alert_id] < CooldownMinutes * 60
        THEN eff
        ELSE [eff EXCEPT
                !.last_notifications = DictPut(ln, alert_id, t),
                !.notifications = Append(@, [message |-> message,
                                             ok |-> "notify" \notin faults]),
                !.raised = "notify" \in faults]

\* as SendAlert, the key ending before the reading for the configured zones
SendAlert_KeyTwenty(eff, message, t, faults) ==
    LET alert_id == Take(message, 20)
        ln == eff.last_notifications
    IN  IF alert_id \in DOMAIN ln /\ t - ln[alert_id] < CooldownMinutes * 60
        THEN eff
        ELSE [eff EXCEPT
                !.last_notifications = DictPut(ln, alert_id, t),
                !.notifications = Append(@, [message |-> message,
                                             ok |-> "notify" \notin faults])]

\* as SendAlert, the time recorded once the notifier has returned
SendAlert_RecordOnSuccess(eff, message, t, faults) ==
    LET alert_id == Take(message, AlertIdLen)
        ln == eff.last_notifications
    IN  IF alert_id \in DOMAIN ln /\ t - ln[alert_id] < CooldownMinutes * 60
        THEN eff
        ELSE [eff EXCEPT
                !.last_notifications = IF "notify" \in faults THEN ln
                                       ELSE DictPut(ln, alert_id, t),
                !.notifications = Append(@, [message |-> message,
                                             ok |-> "notify" \notin faults])]

\* _send_alert: cooldown check, record the time, then call the notifier
\* (an exception of the notifier is caught and logged)
SendAlert(eff, message, t, faults) ==
    LET alert_id == Take(message, AlertIdLen)
        ln == eff.last_notifications
    IN  IF alert_id \in DOMAIN ln /\ t - ln[alert_id] < CooldownMinutes * 60
        THEN eff
        ELSE [eff EXCEPT
                !.last_notifications = DictPut(ln, alert_id, t),
                !.notifications = Append(@, [message |-> message,
                                             ok |-> "notify" \notin faults])]

\* hass.services.async_call("switch", service, {"entity_id": entity})
SwitchCall(eff, service, entity, faults) ==
    [eff EXCEPT
        !.calls = Append(@, [service |-> service, entity_id |-> entity,
                             ok |-> entity \notin faults]),
        !.raised = entity \in faults]

\* as IsCriticalLow, the bound exclusive
IsCriticalLow_Strict(temp, config) == Lt(temp, config.critical_min)

\* temp <= config[CONF_CRITICAL_MIN]
IsCriticalLow(temp, config) == Le(temp, config.critical_min)

\* temp >= config[CONF_CRITICAL_MAX]
IsCriticalHigh(temp, config) == Ge(temp, config.critical_max)

\* as Gated, the zone's override not consulted
Gated_AutomationOnly(auto, overrides, index) == ~auto

\* not self._automation_enabled or self._manual_overrides.get(index, False)
Gated(auto, overrides, index) == ~auto \/ DictGet(overrides, index, FALSE)

\* STATUS_OK if self._automation_enabled else "manual"
GateStatus(auto) == IF auto THEN STATUS_OK ELSE STATUS_MANUAL

\* as ShouldTurnOn, the heater test inverted
ShouldTurnOn_Inverted(temp, config, is_heating) == Lt(temp, config.target_min) /\ is_heating

\* as ShouldTurnOn, the bound inclusive
ShouldTurnOn_Inclusive(temp, config, is_heating) == Le(temp, config.target_min) /\ ~is_heating

\* temp < config[CONF_TARGET_MIN] and not is_heating
ShouldTurnOn(temp, config, is_heating) == Lt(temp, config.target_min) /\ ~is_heating

\* as ShouldTurnOff, compared against the critical bound
ShouldTurnOff_Critical(temp, config, is_heating) == Gt(temp, config.critical_max) /\ is_heating

\* temp > config[CONF_TARGET_MAX] and is_heating
ShouldTurnOff(temp, config, is_heating) == Gt(temp, config.target_max) /\ is_heating

\* _control_heat_source
ControlHeatSource(heat_data, config, index, temp, eff, auto, overrides, t, faults) ==
    IF IsCriticalLow(temp, config)
    THEN [heat_data |-> [heat_data EXCEPT !.status = STATUS_CRITICAL_LOW],
          eff |-> SendAlert(eff, TooColdMessage(config.name, temp), t, faults)]
    ELSE IF IsCriticalHigh(temp, config)
    THEN [heat_data |-> [heat_data EXCEPT !.status = STATUS_CRITICAL_HIGH],
          eff |-> SendAlert(eff, TooHotMessage(config.name, temp), t, faults)]
    ELSE IF Gated(auto, overrides, index)
    THEN [heat_data |-> [heat_data EXCEPT !.status = GateStatus(auto)],
          eff |-> eff]
    ELSE LET is_heating == Truthy(heat_data.is_heating) IN
         IF ShouldTurnOn(temp, config, is_heating)
         THEN LET e == SwitchCall(eff, "turn_on", config.switch_entity, faults)
              IN  [heat_data |-> IF e.raised THEN heat_data
                                 ELSE [heat_data EXCEPT !.status = STATUS_HEATING],
                   eff |-> e]
         ELSE IF ShouldTurnOff(temp, config, is_heating)
         THEN LET e == SwitchCall(eff, "turn_off", config.switch_entity, faults)
              IN  [heat_data |-> IF e.raised THEN heat_data
                                 ELSE [heat_data EXCEPT !.status = STATUS_COOLING],
                   eff |-> e]
         ELSE IF Lt(temp, config.target_min)
         THEN [heat_data |-> [heat_data EXCEPT !.status = STATUS_BELOW_TARGET], eff |-> eff]
         ELSE IF Gt(temp, config.target_max)
         THEN [heat_data |-> [heat_data EXCEPT !.status = STATUS_ABOVE_TARGET], eff |-> eff]
         ELSE [heat_data |-> [heat_data EXCEPT !.status = STATUS_OK], eff |-> eff]

\* _process_heat_source
ProcessHeatSource(config, index, temp_state, switch_state, eff, auto, overrides, t, faults) ==
    LET current_temp == ReadFloat(temp_state)
        heat_data == [name |-> config.name,
                      current_temp |-> current_temp,
                      is_heating |-> ReadIsHeating(switch_state),
                      status |-> STATUS_UNKNOWN,
                      alerts |-> <<>>]
    IN  IF current_temp # None
        THEN ControlHeatSource(heat_data, config, index, current_temp, eff,
                               auto, overrides, t, faults)
        ELSE [heat_data |-> heat_data, eff |-> eff]

\* as ProcessAtmosphere, the humidity looked at only when the temperature
\* raised no alert
ProcessAtmosphere_Chained(temp_state, humidity_state, eff, t, faults) ==
    LET current_temp == ReadFloat(temp_state)
        current_humidity == ReadFloat(humidity_state)
        tempAlert == /\ current_temp # None
                     /\ \/ Le(current_temp, CONF_ATMO.critical_min_temp)
                        \/ Ge(current_temp, CONF_ATMO.critical_max_temp)
        e1 == IF current_temp = None THEN eff
              ELSE IF Le(current_temp, CONF_ATMO.critical_min_temp)
              THEN SendAlert(eff, TankTempLowMessage(current_temp), t, faults)
              ELSE IF Ge(current_temp, CONF_ATMO.critical_max_temp)
              THEN SendAlert(eff, TankTempHighMessage(current_temp), t, faults)
              ELSE eff
        e2 == IF current_humidity = None \/ tempAlert THEN e1
              ELSE IF Le(current_humidity, CONF_ATMO.critical_min_humidity)
              THEN SendAlert(e1, TankHumidityLowMessage(current_humidity), t, faults)
              ELSE IF Ge(current_humidity, CONF_ATMO.critical_max_humidity)
              THEN SendAlert(e1, TankHumidityHighMessage(current_humidity), t, faults)
              ELSE e1
    IN  [atmosphere |-> [current_temp |-> current_temp,
                         current_humidity |-> current_humidity,
                         alerts |-> <<>>],
         eff |-> e2]

\* _process_atmosphere
ProcessAtmosphere(temp_state, humidity_state, eff, t, faults) ==
    LET current_temp == ReadFloat(temp_state)
        current_humidity == ReadFloat(humidity_state)
        e1 == IF current_temp = None THEN eff
              ELSE IF Le(current_temp, CONF_ATMO.critical_min_temp)
              THEN SendAlert(eff, TankTempLowMessage(current_temp), t, faults)
              ELSE IF Ge(current_temp, CONF_ATMO.critical_max_temp)
              THEN SendAlert(eff, TankTempHighMessage(current_temp), t, faults)
              ELSE eff
        e2 == IF current_humidity = None THEN e1
              ELSE IF Le(current_humidity, CONF_ATMO.critical_min_humidity)
              THEN SendAlert(e1, TankHumidityLowMessage(current_humidity), t, faults)
              ELSE IF Ge(current_humidity, CONF_ATMO.critical_max_humidity)
              THEN SendAlert(e1, TankHumidityHighMessage(current_humidity), t, faults)
              ELSE e1
    IN  [atmosphere |-> [current_temp |-> current_temp,
                         current_humidity |-> current_humidity,
                         alerts |-> <<>>],
         eff |-> e2]

\* the loop over enumerate(self.config[CONF_HEAT_SOURCES]); it stops at the
\* first zone whose processing raises
RECURSIVE ProcessZones(_, _, _, _, _, _, _)
ProcessZones(i, acc, inp, auto, overrides, t, faults) ==
    IF i \notin Zones \/ acc.eff.raised THEN acc
    ELSE LET r == ProcessHeatSource(CONF_HEAT_SOURCES[i], i, inp.temp[i], inp.switch[i],
                                    acc.eff, auto, overrides, t, faults)
         IN  ProcessZones(i + 1,
                          [heat_sources |-> IF r.eff.raised THEN acc.heat_sources
                                            ELSE DictPut(acc.heat_sources, i, r.heat_data),
                           eff |-> r.eff],
                          inp, auto, overrides, t, faults)

\* the body of _async_update_data's try block
UpdateData(inp, auto, overrides, ln, feeding, shedding, weight, t, faults) ==
    LET z == ProcessZones(0, [heat_sources |-> [x \in {} |-> None], eff |-> NewEff(ln)],
                          inp, auto, overrides, t, faults)
        a == IF z.eff.raised
             THEN [atmosphere |-> [current_temp |-> None, current_humidity |-> None,
                                   alerts |-> <<>>],
                   eff |-> z.eff]
             ELSE ProcessAtmosphere(inp.atmo_temp, inp.atmo_humidity, z.eff, t, faults)
    IN  [data |-> [present |-> TRUE,
                   heat_sources |-> z.heat_sources,
                   atmosphere |-> a.atmosphere,
                   care |-> [feeding_log |-> feeding, shedding_log |-> shedding,
                             weight_log |-> weight],
                   automation_enabled |-> auto,
                   last_update |-> t],
         eff |-> a.eff]

----------------------------------------------------------------------------
(* Inputs *)

\* how many degrees away from a threshold the sampled readings lie
Margin == 1

\* how many scheduled ticks a behaviour runs
MaxTicks == 2

\* the readings sampled for heat zone i: each threshold, and the points
\* Margin away from the critical thresholds and around the target band
ZoneTemps(i) ==
    LET c == CONF_HEAT_SOURCES[i]
    IN  {c.critical_min - Margin, c.critical_min, c.target_min - Margin, c.target_min,
         c.target_min + Margin, c.target_max, c.target_max + Margin,
         c.critical_max, c.critical_max + Margin}

NonNumericStates ==
    {NoState, State(Unknown), State(Unavailable), State(<<"a", "b", "c">>)}

TempStates(i) ==
    NonNumericStates \cup {State(<<"n", "a", "n">>)} \cup {State(IntStr(n)) : n \in ZoneTemps(i)}

SwitchStates == {NoState, State(STATE_ON), State(STATE_OFF), State(Unavailable)}

\* the reading of a zone that is not the one a tick's inputs vary
QuietTemp(i) == State(IntStr(CONF_HEAT_SOURCES[i].target_min))

AtmoQuietTemp == State(IntStr(CONF_ATMO.target_min_temp))
AtmoQuietHumidity == State(IntStr(CONF_ATMO.target_min_humidity))

\* the entity states a tick can find: one zone takes any sampled reading and
\* switch state, every other zone an in-band reading with its heater off
Inputs ==
    UNION {
      { [temp |-> [i \in Zones |-> IF i = z THEN ts ELSE QuietTemp(i)],
         switch |-> [i \in Zones |-> IF i = z THEN ss ELSE State(STATE_OFF)],
         atmo_temp |-> AtmoQuietTemp, atmo_humidity |-> AtmoQuietHumidity] :
          ts \in TempStates(z), ss \in SwitchStates }
      : z \in Zones }

\* a few entity states, for the behaviours that interleave ticks and mutators:
\* each zone is too cool with its heater off, too warm with its heater on, or
\* in its band with its heater on
OpKinds == {"cool", "warm", "band"}

OpTemp(i, k) ==
    LET c == CONF_HEAT_SOURCES[i]
    IN  State(IntStr(IF k = "cool" THEN c.target_min - Margin
                     ELSE IF k = "warm" THEN c.target_max + Margin
                     ELSE c.target_max))

OpInputs ==
    { [temp |-> [i \in Zones |-> OpTemp(i, k[i])],
       switch |-> [i \in Zones |-> IF k[i] = "cool" THEN State(STATE_OFF) ELSE State(STATE_ON)],
       atmo_temp |-> AtmoQuietTemp, atmo_humidity |-> NoState] :
        k \in [Zones -> OpKinds] }

NoInputs ==
    [temp |-> [i \in Zones |-> NoState], switch |-> [i \in Zones |-> NoState],
     atmo_temp |-> NoState, atmo_humidity |-> NoState]

NoData ==
    [present |-> FALSE, heat_sources |-> [x \in {} |-> None],
     atmosphere |-> [current_temp |-> None, current_humidity |-> None, alerts |-> <<>>],
     care |-> [feeding_log |-> <<>>, shedding_log |-> <<>>, weight_log |-> <<>>],
     automation_enabled |-> TRUE, last_update |-> 0]

\* no care list of the snapshot is an engine list / every one is
NoneShared == [feeding_log |-> FALSE, shedding_log |-> FALSE, weight_log |-> FALSE]
AllShared == [feeding_log |-> TRUE, shedding_log |-> TRUE, weight_log |-> TRUE]

\* no run of _async_update_data is in progress and no manual switch is
\* being turned on
Idle ==
    [active |-> FALSE, suspended |-> FALSE, next |-> 0, inp |-> NoInputs,
     data |-> NoData, shared |-> NoneShared, eff |-> NewEff(EmptyDict),
     manual |-> {}]

\* the dicts self._manual_overrides can be
OverrideDicts == UNION {[D -> BOOLEAN] : D \in SUBSET Zones}

----------------------------------------------------------------------------
(* State machine *)

\* the engine with its flags as given and nothing refreshed yet
Engine(auto, overrides) ==
    /\ automation_enabled = auto
    /\ manual_overrides = overrides
    /\ last_notifications = [x \in {} |-> 0]
    /\ feeding_log = <<>>
    /\ shedding_log = <<>>
    /\ weight_log = <<>>
    /\ data = NoData
    /\ last_update_success = TRUE
    /\ hass_states = NoInputs
    /\ calls = <<>>
    /\ notifications = <<>>
    /\ now = 0
    /\ last_op = "init"
    /\ care_shared = NoneShared
    /\ refresh_requested = FALSE
    /\ inflight = Idle

\* __init__
Init == Engine(TRUE, EmptyDict)

\* the engine before its first refresh, its flags as the mutators left them
InitFlags == \E auto \in BOOLEAN, overrides \in OverrideDicts : Engine(auto, overrides)

\* as Refresh, publishing what the run had built when it raised
Refresh_PublishAlways(inp, faults) ==
    /\ ~inflight.active
    /\ \E r \in {UpdateData(inp, automation_enabled, manual_overrides, last_notifications,
                        feeding_log, shedding_log, weight_log, now', faults)} :
        /\ hass_states' = inp
        /\ last_notifications' = r.eff.last_notifications
        /\ calls' = r.eff.calls
        /\ notifications' = r.eff.notifications
        /\ data' = r.data
        /\ care_shared' = AllShared
        /\ last_update_success' = ~r.eff.raised
        /\ last_op' = "tick"
        /\ refresh_requested' = FALSE
        /\ UNCHANGED <<automation_enabled, manual_overrides, feeding_log,
                       shedding_log, weight_log, inflight>>

\* as Refresh, with the throttle map put back as it was when the run raises
Refresh_RollBack(inp, faults) ==
    /\ ~inflight.active
    /\ \E r \in {UpdateData(inp, automation_enabled, manual_overrides, last_notifications,
                        feeding_log, shedding_log, weight_log, now', faults)} :
        /\ hass_states' = inp
        /\ last_notifications' = IF r.eff.raised THEN last_notifications
                                 ELSE r.eff.last_notifications
        /\ calls' = r.eff.calls
        /\ notifications' = r.eff.notifications
        /\ data' = IF r.eff.raised THEN data ELSE r.data
        /\ care_shared' = IF r.eff.raised THEN care_shared ELSE AllShared
        /\ last_update_success' = ~r.eff.raised
        /\ last_op' = "tick"
        /\ refresh_requested' = FALSE
        /\ UNCHANGED <<automation_enabled, manual_overrides, feeding_log,
                       shedding_log, weight_log, inflight>>

\* as Refresh, a successful run dropping the manual overrides
Refresh_ClearsOverrides(inp, faults) ==
    /\ ~inflight.active
    /\ \E r \in {UpdateData(inp, automation_enabled, manual_overrides, last_notifications,
                        feeding_log, shedding_log, weight_log, now', faults)} :
        /\ hass_states' = inp
        /\ last_notifications' = r.eff.last_notifications
        /\ calls' = r.eff.calls
        /\ notifications' = r.eff.notifications
        /\ data' = IF r.eff.raised THEN data ELSE r.data
        /\ care_shared' = IF r.eff.raised THEN care_shared ELSE AllShared
        /\ last_update_success' = ~r.eff.raised
        /\ last_op' = "tick"
        /\ refresh_requested' = FALSE
        /\ manual_overrides' = IF r.eff.raised THEN manual_overrides ELSE EmptyDict
        /\ UNCHANGED <<automation_enabled, feeding_log,
                       shedding_log, weight_log, inflight>>

\* one run of _async_update_data against the entity states inp, run to its
\* end without suspending; a run that raises ends in UpdateFailed and leaves
\* coordinator.data as it was
Refresh(inp, faults) ==
    /\ ~inflight.active
    /\ \E r \in {UpdateData(inp, automation_enabled, manual_overrides, last_notifications,
                        feeding_log, shedding_log, weight_log, now', faults)} :
        /\ hass_states' = inp
        /\ last_notifications' = r.eff.last_notifications
        /\ calls' = r.eff.calls
        /\ notifications' = r.eff.notifications
        /\ data' = IF r.eff.raised THEN data ELSE r.data
        /\ care_shared' = IF r.eff.raised THEN care_shared ELSE AllShared
        /\ last_update_success' = ~r.eff.raised
        /\ last_op' = "tick"
        /\ refresh_requested' = FALSE
        /\ UNCHANGED <<automation_enabled, manual_overrides, feeding_log,
                       shedding_log, weight_log, inflight>>

\* the scheduled tick, one update interval after the previous one
ScheduledTick(ins) ==
    /\ now + DEFAULT_UPDATE_INTERVAL <= MaxTicks * DEFAULT_UPDATE_INTERVAL
    /\ now' = now + DEFAULT_UPDATE_INTERVAL
    /\ \E inp \in ins : Refresh(inp, {})

Tick == ScheduledTick(Inputs)

TickOp == ScheduledTick(OpInputs)

\* as SetAutomationEnabled, without the clear()
SetAutomationEnabled_NoClear(enabled) ==
    /\ automation_enabled' = enabled
    /\ manual_overrides' = manual_overrides
    /\ last_op' = "set_automation_enabled"
    /\ UNCHANGED <<last_notifications, feeding_log, shedding_log, weight_log, data,
                   last_update_success, hass_states, calls, notifications, now,
                   care_shared, refresh_requested, inflight>>

\* set_automation_enabled
SetAutomationEnabled(enabled) ==
    /\ automation_enabled' = enabled
    /\ manual_overrides' = IF enabled THEN EmptyDict ELSE manual_overrides
    /\ last_op' = "set_automation_enabled"
    /\ UNCHANGED <<last_notifications, feeding_log, shedding_log, weight_log, data,
                   last_update_success, hass_states, calls, notifications, now,
                   care_shared, refresh_requested, inflight>>

\* as SetManualOverride, the dict rebuilt with the one entry
SetManualOverride_Rebuild(heat_source_index, override) ==
    /\ manual_overrides' = DictPut(EmptyDict, heat_source_index, override)
    /\ last_op' = "set_manual_override"
    /\ UNCHANGED <<automation_enabled, last_notifications, feeding_log, shedding_log,
                   weight_log, data, last_update_success, hass_states, calls,
                   notifications, now, care_shared, refresh_requested, inflight>>

\* set_manual_override
SetManualOverride(heat_source_index, override) ==
    /\ manual_overrides' = DictPut(manual_overrides, heat_source_index, override)
    /\ last_op' = "set_manual_override"
    /\ UNCHANGED <<automation_enabled, last_notifications, feeding_log, shedding_log,
                   weight_log, data, last_update_success, hass_states, calls,
                   notifications, now, care_shared, refresh_requested, inflight>>

AutomationSwitch == \E enabled \in BOOLEAN : SetAutomationEnabled(enabled)

ManualOverride == \E i \in Zones, override \in BOOLEAN : SetManualOverride(i, override)

\* ticks and mutators, from construction
Next ==
    \/ TickOp
    \/ AutomationSwitch
    \/ ManualOverride

Spec == Init /\ [][Next]_vars

\* ticks over the sampled readings, the flags as the mutators left them
NextTick == Tick

SpecTick == InitFlags /\ [][NextTick]_vars

----------------------------------------------------------------------------
(* The alert throttle over longer stretches of time *)

\* how many minutes a behaviour of the throttle specifications covers
MaxMinutes == 62

\* the stretches of time, in seconds, between two ticks that are looked at:
\* a third of the cooldown, and a minute more than the cooldown.  The
\* scheduled ticks in between find every reading in its band and leave the
\* throttle as it is.
Elapses == {(CooldownMinutes * 60) \div 3, CooldownMinutes * 60 + 60}

\* every zone in its band with its heater off, except zone z reading ts
AlertInput(z, ts) ==
    [temp |-> [i \in Zones |-> IF i = z THEN ts ELSE QuietTemp(i)],
     switch |-> [i \in Zones |-> State(STATE_OFF)],
     atmo_temp |-> AtmoQuietTemp, atmo_humidity |-> AtmoQuietHumidity]

\* the entity states of the throttle behaviours: all quiet, or one zone at or
\* Margin below its critical minimum
AlertInputs ==
    {AlertInput(z, QuietTemp(z)) : z \in Zones}
        \cup {AlertInput(z, State(IntStr(CONF_HEAT_SOURCES[z].critical_min - d))) :
                z \in Zones, d \in {0, Margin}}

\* a scheduled tick, d seconds after the last tick that was looked at
ThrottleTick ==
    \E d \in Elapses :
        /\ d % DEFAULT_UPDATE_INTERVAL = 0
        /\ now + d <= MaxMinutes * 60
        /\ now' = now + d
        /\ \E inp \in AlertInputs : Refresh(inp, {})

NextThrottle == ThrottleTick

SpecThrottle == Init /\ [][NextThrottle]_vars

\* a zone name long enough for the reading to start at character 50 of
\* "CRITICAL: <name> too cold: <temp>" (10 + 28 + 11 characters before it)
LongName ==
    <<"B", "a", "s", "k", "i", "n", "g", " ", "S", "p", "o", "t", " ",
      "C", "e", "r", "a", "m", "i", "c", " ", "E", "m", "i", "t", "t", "e", "r">>

\* the messages _send_alert is applied to on its own: for the long zone name
\* three readings whose texts differ at character 50 or only at character 51,
\* and one message shorter than the key
AlertMessages ==
    {TooColdMessage(LongName, Float(CONF_HEAT_SOURCES[0].critical_min - d)) : d \in {0, Margin, 10}}
        \cup {TooColdMessage(BaskingSpot, Float(CONF_HEAT_SOURCES[0].critical_min))}

\* one call of _send_alert(message), no notifier fault
AlertStepOf(message) ==
    /\ ~inflight.active
    /\ \E e \in {SendAlert(NewEff(last_notifications), message, now, {})} :
        /\ last_notifications' = e.last_notifications
        /\ notifications' = e.notifications
    /\ calls' = <<>>
    /\ last_op' = "send_alert"
    /\ UNCHANGED <<automation_enabled, manual_overrides, feeding_log, shedding_log,
                   weight_log, data, last_update_success, hass_states, now,
                   care_shared, refresh_requested, inflight>>

AlertStep == \E message \in AlertMessages : AlertStepOf(message)

\* time passes without an alert being raised
TimePasses ==
    \E d \in Elapses :
        /\ now + d <= MaxMinutes * 60
        /\ now' = now + d
        /\ UNCHANGED <<automation_enabled, manual_overrides, last_notifications,
                       feeding_log, shedding_log, weight_log, data, last_update_success,
                       hass_states, calls, notifications, last_op,
                       care_shared, refresh_requested, inflight>>

NextAlert ==
    \/ AlertStep
    \/ TimePasses

SpecAlert == Init /\ [][NextAlert]_vars

----------------------------------------------------------------------------
(* The care logs: log_feeding, log_shedding, log_weight and their services *)

\* the lengths the logs are cut to
FeedingLogCap == 50
SheddingLogCap == 20
WeightLogCap == 50

\* how many events a behaviour appends to the logs it starts with
MaxAppends == 3

\* the units the log_weight service accepts
WeightUnits == {"g", "kg", "oz", "lb"}

\* what the callers of the services pass in
FoodTypes == {"mouse", "cricket"}
WeightsGiven == {0 - 40, 0, 120}
UnitsGiven == {"g", "stone"}

\* the entry dicts the three methods build
FeedingEntry(t, food_type, food_size, notes) ==
    [date |-> t, food_type |-> food_type, food_size |-> food_size, notes |-> notes]
SheddingEntry(t, complete, notes) ==
    [date |-> t, complete |-> complete, notes |-> notes]
WeightEntry(t, weight, unit, notes) ==
    [date |-> t, weight |-> weight, unit |-> unit, notes |-> notes]

\* logs of n events appended before the behaviour starts, one a second
PastFeedings(n) == [k \in 1..n |-> FeedingEntry(k - n - 1, "mouse", "small", "")]
PastSheddings(n) == [k \in 1..n |-> SheddingEntry(k - n - 1, TRUE, "")]
PastWeights(n) == [k \in 1..n |-> WeightEntry(k - n - 1, 120 + k, "g", "")]

\* the events appended since the behaviour started
NewEntries(log) == Cardinality({k \in 1..Len(log) : log[k].date >= 0})
AppendsSoFar == NewEntries(feeding_log) + NewEntries(shedding_log) + NewEntries(weight_log)

\* list.append on an engine list: a snapshot (published, or being built by a
\* suspended run) that holds the same list object sees the new entry
AppendSeen(d, shared, which, appended) ==
    IF shared[which] THEN [d EXCEPT !.care[which] = appended] ELSE d

\* as LogFrame, without the request for a refresh
LogFrame_NoRefresh(which, appended, op) ==
    /\ ~inflight.active \/ inflight.suspended
    /\ AppendsSoFar < MaxAppends
    /\ data' = AppendSeen(data, care_shared, which, appended)
    /\ care_shared' = [care_shared EXCEPT ![which] = FALSE]
    /\ inflight' = IF inflight.active
                   THEN [inflight EXCEPT
                            !.data = AppendSeen(@, inflight.shared, which, appended),
                            !.shared[which] = FALSE]
                   ELSE inflight
    /\ last_op' = op
    /\ UNCHANGED <<automation_enabled, manual_overrides, last_notifications,
                   last_update_success, hass_states, calls, notifications, now,
                   refresh_requested>>

\* the part of the three methods that is common: the snapshots that share the
\* list see the append, the slice binds a new list to the attribute, and a
\* refresh is requested
LogFrame(which, appended, op) ==
    /\ ~inflight.active \/ inflight.suspended
    /\ AppendsSoFar < MaxAppends
    /\ data' = AppendSeen(data, care_shared, which, appended)
    /\ care_shared' = [care_shared EXCEPT ![which] = FALSE]
    /\ inflight' = IF inflight.active
                   THEN [inflight EXCEPT
                            !.data = AppendSeen(@, inflight.shared, which, appended),
                            !.shared[which] = FALSE]
                   ELSE inflight
    /\ refresh_requested' = TRUE
    /\ last_op' = op
    /\ UNCHANGED <<automation_enabled, manual_overrides, last_notifications,
                   last_update_success, hass_states, calls, notifications, now>>

\* as LogFeeding, keeping the first 50 entries
LogFeeding_KeepFirst(food_type, food_size, notes) ==
    LET appended == Append(feeding_log, FeedingEntry(now, food_type, food_size, notes))
    IN  /\ feeding_log' = Take(appended, FeedingLogCap)
        /\ LogFrame("feeding_log", appended, "log_feeding")
        /\ UNCHANGED <<shedding_log, weight_log>>

\* coordinator.log_feeding
LogFeeding(food_type, food_size, notes) ==
    LET appended == Append(feeding_log, FeedingEntry(now, food_type, food_size, notes))
    IN  /\ feeding_log' = LastN(appended, FeedingLogCap)
        /\ LogFrame("feeding_log", appended, "log_feeding")
        /\ UNCHANGED <<shedding_log, weight_log>>

\* as LogShedding, without the slice
LogShedding_NoTrim(complete, notes) ==
    LET appended == Append(shedding_log, SheddingEntry(now, complete, notes))
    IN  /\ shedding_log' = appended
        /\ LogFrame("shedding_log", appended, "log_shedding")
        /\ UNCHANGED <<feeding_log, weight_log>>

\* coordinator.log_shedding
LogShedding(complete, notes) ==
    LET appended == Append(shedding_log, SheddingEntry(now, complete, notes))
    IN  /\ shedding_log' = LastN(appended, SheddingLogCap)
        /\ LogFrame("shedding_log", appended, "log_shedding")
        /\ UNCHANGED <<feeding_log, weight_log>>

\* coordinator.log_weight
LogWeight(weight, unit, notes) ==
    LET appended == Append(weight_log, WeightEntry(now, weight, unit, notes))
    IN  /\ weight_log' = LastN(appended, WeightLogCap)
        /\ LogFrame("weight_log", appended, "log_weight")
        /\ UNCHANGED <<feeding_log, shedding_log>>

\* the schema of the log_weight service: Range(min=0) on the weight, In(...)
\* on the unit
WeightSchemaAccepts(weight, unit) == weight >= 0 /\ unit \in WeightUnits

\* a call that the schema rejects raises vol.Invalid before the handler runs
Rejected(op) ==
    /\ last_op' = op
    /\ UNCHANGED <<automation_enabled, manual_overrides, last_notifications,
                   feeding_log, shedding_log, weight_log, data, last_update_success,
                   hass_states, calls, notifications, now,
                   care_shared, refresh_requested, inflight>>

\* the services of __init__.py
LogFeedingService == \E food_type \in FoodTypes : LogFeeding(food_type, "small", "")

LogSheddingService == \E complete \in BOOLEAN : LogShedding(complete, "")

\* one call of the log_weight service
LogWeightCall(weight, unit) ==
    IF WeightSchemaAccepts(weight, unit)
    THEN LogWeight(weight, unit, "")
    ELSE Rejected("log_weight_invalid")

LogWeightService ==
    \E weight \in WeightsGiven, unit \in UnitsGiven : LogWeightCall(weight, unit)

\* the entity states the refreshes of the care behaviours find
CareInput == AlertInput(0, QuietTemp(0))

\* the refresh that a log_* call requested
RequestedRefresh ==
    /\ refresh_requested
    /\ now' = now
    /\ Refresh(CareInput, {})

\* the engine after a refresh, its logs empty or one entry short of the cap
InitCare ==
    /\ automation_enabled = TRUE
    /\ manual_overrides = EmptyDict
    /\ last_notifications = EmptyDict
    /\ feeding_log \in {<<>>, PastFeedings(FeedingLogCap - 1)}
    /\ shedding_log \in {<<>>, PastSheddings(SheddingLogCap - 1)}
    /\ weight_log \in {<<>>, PastWeights(WeightLogCap - 1)}
    /\ data = UpdateData(CareInput, TRUE, EmptyDict, EmptyDict,
                         feeding_log, shedding_log, weight_log, 0, {}).data
    /\ last_update_success = TRUE
    /\ hass_states = CareInput
    /\ calls = <<>>
    /\ notifications = <<>>
    /\ now = 0
    /\ last_op = "tick"
    /\ care_shared = AllShared
    /\ refresh_requested = FALSE
    /\ inflight = Idle

NextCare ==
    \/ LogFeedingService
    \/ LogSheddingService
    \/ LogWeightService
    \/ RequestedRefresh

SpecCare == InitCare /\ [][NextCare]_vars

----------------------------------------------------------------------------
(* Ticks in which a service call raises *)

\* the service targets whose call raises during one tick: none, the switch
\* of one zone, or the notifier
FaultSets ==
    {{}, {"notify"}} \cup {{CONF_HEAT_SOURCES[i].switch_entity} : i \in Zones}

\* one zone at its critical minimum, every other zone below its target band
\* with its heater off
MixedInputs ==
    { [temp |-> [i \in Zones |->
                    State(IntStr(IF i = z THEN CONF_HEAT_SOURCES[i].critical_min
                                 ELSE CONF_HEAT_SOURCES[i].target_min - Margin))],
       switch |-> [i \in Zones |-> State(STATE_OFF)],
       atmo_temp |-> AtmoQuietTemp, atmo_humidity |-> AtmoQuietHumidity] : z \in Zones }

\* a scheduled tick during which the calls to the targets in faults raise
FaultyTick ==
    /\ now + DEFAULT_UPDATE_INTERVAL <= MaxTicks * DEFAULT_UPDATE_INTERVAL
    /\ now' = now + DEFAULT_UPDATE_INTERVAL
    /\ \E inp \in OpInputs \cup AlertInputs \cup MixedInputs, faults \in FaultSets :
            Refresh(inp, faults)

NextFault == FaultyTick

SpecFault == Init /\ [][NextFault]_vars

----------------------------------------------------------------------------
(* A tick taken await by await.  The engine takes no lock: a run of          *)
(* _async_update_data that is suspended at an await (a switch or notify      *)
(* service call) leaves the event loop free to run the entities' calls of    *)
(* the synchronous mutators.                                                 *)

\* synchronous code of another entry point can run: no tick is in progress,
\* or the tick in progress is suspended at an await
MayRun == ~inflight.active \/ inflight.suspended

\* the scheduled tick starts: the data dict is built with the care lists and
\* the automation flag of this moment
TickStart ==
    /\ ~inflight.active
    /\ now + DEFAULT_UPDATE_INTERVAL <= MaxTicks * DEFAULT_UPDATE_INTERVAL
    /\ now' = now + DEFAULT_UPDATE_INTERVAL
    /\ \E inp \in OpInputs :
        inflight' = [active |-> TRUE, suspended |-> FALSE, next |-> 0, inp |-> inp,
                     data |-> [present |-> TRUE,
                               heat_sources |-> [x \in {} |-> None],
                               atmosphere |-> NoData.atmosphere,
                               care |-> [feeding_log |-> feeding_log,
                                         shedding_log |-> shedding_log,
                                         weight_log |-> weight_log],
                               automation_enabled |-> automation_enabled,
                               last_update |-> now'],
                     shared |-> AllShared,
                     eff |-> NewEff(last_notifications),
                     manual |-> inflight.manual]
    /\ UNCHANGED <<automation_enabled, manual_overrides, last_notifications,
                   feeding_log, shedding_log, weight_log, data, last_update_success,
                   hass_states, calls, notifications, last_op,
                   care_shared, refresh_requested>>

\* the tick processes its next zone with the flags of this moment; it is
\* suspended afterwards if the zone awaited a switch or notify call
TickZone ==
    /\ inflight.active
    /\ inflight.next \in Zones
    /\ \E r \in {ProcessHeatSource(CONF_HEAT_SOURCES[inflight.next], inflight.next,
                                   inflight.inp.temp[inflight.next],
                                   inflight.inp.switch[inflight.next],
                                   inflight.eff, automation_enabled, manual_overrides,
                                   now, {})} :
        /\ inflight' = [inflight EXCEPT
                          !.next = @ + 1,
                          !.data.heat_sources = DictPut(@, inflight.next, r.heat_data),
                          !.eff = r.eff,
                          !.suspended =
                              \/ Len(r.eff.calls) > Len(inflight.eff.calls)
                              \/ Len(r.eff.notifications) > Len(inflight.eff.notifications)]
        /\ last_notifications' = r.eff.last_notifications
    /\ UNCHANGED <<automation_enabled, manual_overrides, feeding_log, shedding_log,
                   weight_log, data, last_update_success, hass_states, calls,
                   notifications, now, last_op, care_shared, refresh_requested>>

\* the tick processes the atmosphere and returns its data dict, which the
\* coordinator publishes
TickFinish ==
    /\ inflight.active
    /\ inflight.next \notin Zones
    /\ \E a \in {ProcessAtmosphere(inflight.inp.atmo_temp, inflight.inp.atmo_humidity,
                                   inflight.eff, now, {})} :
        /\ data' = [inflight.data EXCEPT !.atmosphere = a.atmosphere]
        /\ last_notifications' = a.eff.last_notifications
        /\ calls' = a.eff.calls
        /\ notifications' = a.eff.notifications
    /\ care_shared' = inflight.shared
    /\ hass_states' = inflight.inp
    /\ last_update_success' = TRUE
    /\ last_op' = "tick"
    /\ refresh_requested' = FALSE
    /\ inflight' = [Idle EXCEPT !.manual = inflight.manual]
    /\ UNCHANGED <<automation_enabled, manual_overrides, feeding_log, shedding_log,
                   weight_log, now>>

\* the automation switch entity, turned on or off between two awaits
AutomationSwitchAsync == MayRun /\ AutomationSwitch

\* a manual switch entity, turned on or off between two awaits
ManualOverrideAsync == MayRun /\ ManualOverride

NextAsync ==
    \/ TickStart
    \/ TickZone
    \/ TickFinish
    \/ AutomationSwitchAsync
    \/ ManualOverrideAsync

SpecAsync == Init /\ [][NextAsync]_vars

----------------------------------------------------------------------------
(* Ticks over the readings of the tank atmosphere *)

\* the sampled states of an atmosphere sensor with critical bounds lo and hi:
\* missing, unavailable, and the readings at and Margin around each bound
AtmoStates(lo, hi) ==
    {NoState, State(Unavailable)}
        \cup {State(IntStr(n)) : n \in {lo - Margin, lo, lo + Margin,
                                        hi - Margin, hi, hi + Margin}}

\* every zone in its band with its heater off, the atmosphere sensors in any
\* sampled state
AtmoInputs ==
    { [temp |-> [i \in Zones |-> QuietTemp(i)],
       switch |-> [i \in Zones |-> State(STATE_OFF)],
       atmo_temp |-> ts, atmo_humidity |-> hs] :
        ts \in AtmoStates(CONF_ATMO.critical_min_temp, CONF_ATMO.critical_max_temp),
        hs \in AtmoStates(CONF_ATMO.critical_min_humidity, CONF_ATMO.critical_max_humidity) }

AtmoTick == ScheduledTick(AtmoInputs)

NextAtmo == AtmoTick

SpecAtmo == Init /\ [][NextAtmo]_vars

----------------------------------------------------------------------------
(* binary_sensor.py: WeightLossSensor over the snapshot's weight log *)

\* WeightLossSensor.is_on: "True", "False", or the ZeroDivisionError that the
\* float division raises.  For whole-number weights the double arithmetic of
\* ((previous - current) / previous) * 100 > 10 decides as the exact fraction
\* does, which is compared here by cross-multiplication.
WeightLossIsOn(d) ==
    IF ~d.present THEN "False"
    ELSE LET wlog == d.care.weight_log
         IN  IF Len(wlog) < 2 THEN "False"
             ELSE LET current_weight == wlog[Len(wlog)].weight
                      previous_weight == wlog[Len(wlog) - 1].weight
                  IN  IF previous_weight = 0 THEN "ZeroDivisionError"
                      ELSE IF (previous_weight - current_weight) * 100 > 10 * previous_weight
                      THEN "True" ELSE "False"

\* the weights the log_weight service is called with in the behaviours that
\* watch the sensor
SampleWeights == {0, 85, 90, 91, 100}

LogWeightSample == \E weight \in SampleWeights : LogWeightCall(weight, "g")

NextWeight ==
    \/ LogWeightSample
    \/ RequestedRefresh

SpecWeight == Init /\ [][NextWeight]_vars

----------------------------------------------------------------------------
(* async_setup_entry: the coordinator built from a config entry, and its    *)
(* first refresh.  Neither config_flow.py nor __init__ looks at the bounds. *)

\* the values the four bounds of the entry's zone are drawn from
BoundValues ==
    {CONF_HEAT_SOURCES[0].critical_min, CONF_HEAT_SOURCES[0].target_min,
     CONF_HEAT_SOURCES[0].target_max, CONF_HEAT_SOURCES[0].critical_max}

\* the zone configurations an entry can carry: the first configured zone with
\* any bounds
EntryZones ==
    { [CONF_HEAT_SOURCES[0] EXCEPT !.critical_min = cmin, !.target_min = tmin,
                                    !.target_max = tmax, !.critical_max = cmax] :
        cmin \in BoundValues, tmin \in BoundValues,
        tmax \in BoundValues, cmax \in BoundValues }

\* heat_data as _process_heat_source returns it, the zone's bounds included
WithBounds(heat_data, config) ==
    [name |-> heat_data.name, current_temp |-> heat_data.current_temp,
     target_min |-> config.target_min, target_max |-> config.target_max,
     critical_min |-> config.critical_min, critical_max |-> config.critical_max,
     is_heating |-> heat_data.is_heating, status |-> heat_data.status,
     alerts |-> heat_data.alerts]

\* ReptileHabitatCoordinator(hass, entry) for an entry with the one zone
\* config, followed by async_config_entry_first_refresh()
SetupEntry(config, temp_state, switch_state) ==
    /\ last_op = "init"
    /\ now' = now
    /\ \E r \in {ProcessHeatSource(config, 0, temp_state, switch_state,
                                   NewEff(last_notifications), automation_enabled,
                                   manual_overrides, now, {})} :
        \E a \in {ProcessAtmosphere(AtmoQuietTemp, AtmoQuietHumidity, r.eff, now, {})} :
            /\ data' = [present |-> TRUE,
                        heat_sources |-> DictPut(EmptyDict, 0, WithBounds(r.heat_data, config)),
                        atmosphere |-> a.atmosphere,
                        care |-> [feeding_log |-> feeding_log,
                                  shedding_log |-> shedding_log,
                                  weight_log |-> weight_log],
                        automation_enabled |-> automation_enabled,
                        last_update |-> now]
            /\ last_notifications' = a.eff.last_notifications
            /\ calls' = a.eff.calls
            /\ notifications' = a.eff.notifications
    /\ hass_states' = [NoInputs EXCEPT !.temp[0] = temp_state, !.switch[0] = switch_state,
                                       !.atmo_temp = AtmoQuietTemp,
                                       !.atmo_humidity = AtmoQuietHumidity]
    /\ care_shared' = AllShared
    /\ last_update_success' = TRUE
    /\ last_op' = "tick"
    /\ UNCHANGED <<automation_enabled, manual_overrides, feeding_log, shedding_log,
                   weight_log, refresh_requested, inflight>>

SetupAnyEntry ==
    \E config \in EntryZones, n \in BoundValues, ss \in {State(STATE_ON), State(STATE_OFF)} :
        SetupEntry(config, State(IntStr(n)), ss)

NextConfig == SetupAnyEntry

SpecConfig == Init /\ [][NextConfig]_vars

----------------------------------------------------------------------------
(* One zone critically cold in every scheduled tick, its reading moving       *)
(* from tick to tick.                                                        *)

\* how many scheduled ticks in a row are looked at: a minute more than the
\* cooldown
MaxWindowTicks == 62

\* zone 0 at or Margin below its critical minimum, everything else quiet
StayCriticalInputs ==
    {AlertInput(0, State(IntStr(CONF_HEAT_SOURCES[0].critical_min - d))) :
        d \in {0, Margin}}

\* the next scheduled tick, DEFAULT_UPDATE_INTERVAL seconds after the last
ConsecutiveTick ==
    /\ now + DEFAULT_UPDATE_INTERVAL <= MaxWindowTicks * DEFAULT_UPDATE_INTERVAL
    /\ now' = now + DEFAULT_UPDATE_INTERVAL
    /\ \E inp \in StayCriticalInputs : Refresh(inp, {})

NextConsecutive == ConsecutiveTick

SpecConsecutive == Init /\ [][NextConsecutive]_vars

----------------------------------------------------------------------------
(* The same ticks with the notifier out of order: every call of the notify   *)
(* service raises.                                                           *)

\* the next scheduled tick, every notify call of which raises
NotifierDownTick ==
    /\ now + DEFAULT_UPDATE_INTERVAL <= MaxWindowTicks * DEFAULT_UPDATE_INTERVAL
    /\ now' = now + DEFAULT_UPDATE_INTERVAL
    /\ \E inp \in StayCriticalInputs : Refresh(inp, {"notify"})

NextNotifierDown == NotifierDownTick

SpecNotifierDown == Init /\ [][NextNotifierDown]_vars

----------------------------------------------------------------------------
(* Ticks among all the mutators of the engine: the two flag setters and the  *)
(* three log_* methods.                                                      *)

\* coordinator.log_feeding, log_shedding and log_weight, each called with
\* one sample event
FeedingLogged == LogFeeding("mouse", "small", "")

SheddingLogged == LogShedding(TRUE, "")

WeightLogged == LogWeight(120, "g", "")

\* the entity states the ticks among the mutators find: every zone below
\* its band with its heater off, or every zone above it with its heater on
FrameInputs ==
    {inp \in OpInputs :
        \A i \in Zones : inp.switch[i] = inp.switch[0] /\ inp.temp[i] # OpTemp(i, "band")}

FrameTick == ScheduledTick(FrameInputs)

NextFrame ==
    \/ FrameTick
    \/ RequestedRefresh
    \/ AutomationSwitch
    \/ ManualOverride
    \/ FeedingLogged
    \/ SheddingLogged
    \/ WeightLogged

SpecFrame == Init /\ [][NextFrame]_vars

----------------------------------------------------------------------------
(* switch.py: HeatSourceManualSwitch.async_turn_on taken await by await,      *)
(* among the scheduled ticks.                                                *)

\* async_turn_on up to its await: with a snapshot published and the zone in
\* it, the switch turn_on call is made and the coroutine is suspended
ManualTurnOnCall(i) ==
    /\ data.present
    /\ i \in DOMAIN data.heat_sources
    /\ i \notin inflight.manual
    /\ inflight' = [inflight EXCEPT !.manual = @ \cup {i}]
    /\ last_op' = "manual_turn_on"
    /\ UNCHANGED <<automation_enabled, manual_overrides, last_notifications,
                   feeding_log, shedding_log, weight_log, data, last_update_success,
                   hass_states, calls, notifications, now,
                   care_shared, refresh_requested>>

\* async_turn_on after its await: set_manual_override(index, True)
ManualTurnOnReturn(i) ==
    /\ i \in inflight.manual
    /\ inflight' = [inflight EXCEPT !.manual = @ \ {i}]
    /\ manual_overrides' = DictPut(manual_overrides, i, TRUE)
    /\ last_op' = "set_manual_override"
    /\ UNCHANGED <<automation_enabled, last_notifications, feeding_log, shedding_log,
                   weight_log, data, last_update_success, hass_states, calls,
                   notifications, now, care_shared, refresh_requested>>

ManualTurnOnStarts == \E i \in Zones : ManualTurnOnCall(i)

ManualTurnOnEnds == \E i \in Zones : ManualTurnOnReturn(i)

NextManual ==
    \/ TickOp
    \/ ManualTurnOnStarts
    \/ ManualTurnOnEnds
    \/ AutomationSwitch

SpecManual == Init /\ [][NextManual]_vars

----------------------------------------------------------------------------
(* Properties *)

\* the latest entry point was a tick that published its snapshot
Ticked == last_op = "tick" /\ last_update_success /\ data.present

Cfg(i) == CONF_HEAT_SOURCES[i]
Zone(i) == data.heat_sources[i]
Temp(i) == Zone(i).current_temp
HasTemp(i) == Temp(i).kind = "float"
Override(i) == DictGet(manual_overrides, i, FALSE)
HeaterOn(i) == Zone(i).is_heating = "True"

\* the switch calls the latest tick made for zone i, in order
RECURSIVE CallsOf(_, _)
CallsOf(cs, entity) ==
    IF cs = <<>> THEN <<>>
    ELSE (IF Head(cs).entity_id = entity THEN <<Head(cs).service>> ELSE <<>>)
         \o CallsOf(Tail(cs), entity)

ZoneCalls(i) == CallsOf(calls, Cfg(i).switch_entity)

\* the alerts the latest tick passed to the notifier that name zone i
ZoneAlerts(i) ==
    LET prefix == Chars_CRITICAL \o Cfg(i).name
    IN  {k \in 1..Len(notifications) :
            /\ Len(notifications[k].message) >= Len(prefix)
            /\ SubSeq(notifications[k].message, 1, Len(prefix)) = prefix}

NonCritical(i) ==
    HasTemp(i) /\ Temp(i).val > Cfg(i).critical_min /\ Temp(i).val < Cfg(i).critical_max

\* C1: a zone read at or below critical_min is CRITICAL_LOW, one read at or
\* above critical_max is CRITICAL_HIGH, and the tick makes no switch call for
\* it, whatever the flags and the heater state
C1_CriticalNoCommand ==
    Ticked =>
        \A i \in Zones :
            /\ (HasTemp(i) /\ Temp(i).val <= Cfg(i).critical_min)
                   => Zone(i).status = STATUS_CRITICAL_LOW /\ ZoneCalls(i) = <<>>
            /\ (HasTemp(i) /\ Temp(i).val >= Cfg(i).critical_max)
                   => Zone(i).status = STATUS_CRITICAL_HIGH /\ ZoneCalls(i) = <<>>

\* a tick read a zone exactly at critical_min with automation on, no override
\* and the heater off
C1_Witness ==
    /\ Ticked
    /\ \E i \in Zones :
        /\ HasTemp(i) /\ Temp(i).val = Cfg(i).critical_min
        /\ automation_enabled /\ ~Override(i) /\ ~HeaterOn(i)
        /\ Zone(i).status = STATUS_CRITICAL_LOW

\* C2: automation enabled, override set on zone i, reading present and not
\* critical: the tick reports "manual"
C2_OverrideReportsManual ==
    Ticked =>
        \A i \in Zones :
            (automation_enabled /\ Override(i) /\ NonCritical(i))
                => Zone(i).status = STATUS_MANUAL

\* C3: automation disabled, reading present and not critical: the tick
\* reports OK, with or without an override
C3_DisabledReportsOk ==
    Ticked =>
        \A i \in Zones :
            (~automation_enabled /\ NonCritical(i)) => Zone(i).status = STATUS_OK

\* C4: a tick makes no switch call for a zone while automation is disabled or
\* the zone's override is set
C4_GatedNoCommand ==
    last_op = "tick" =>
        \A i \in Zones :
            (~automation_enabled \/ Override(i)) => ZoneCalls(i) = <<>>

\* a tick left an overridden, too cool zone with its heater off alone and
\* switched the other zone
C4_Witness ==
    /\ Ticked
    /\ automation_enabled
    /\ \E i \in Zones, j \in Zones :
        /\ Override(i) /\ ~Override(j)
        /\ HasTemp(i) /\ Temp(i).val < Cfg(i).target_min /\ ~HeaterOn(i)
        /\ ZoneCalls(i) = <<>>
        /\ ZoneCalls(j) # <<>>

\* C5: automation on, no override, critical_min < temp < target_min, heater
\* read as off: exactly one turn_on call for the zone, status HEATING
C5_TurnOnHeating ==
    Ticked =>
        \A i \in Zones :
            (/\ automation_enabled /\ ~Override(i)
             /\ HasTemp(i) /\ Temp(i).val > Cfg(i).critical_min
             /\ Temp(i).val < Cfg(i).target_min
             /\ ~HeaterOn(i))
                => ZoneCalls(i) = <<"turn_on">> /\ Zone(i).status = STATUS_HEATING

C5_Witness ==
    /\ Ticked
    /\ \E i \in Zones :
        /\ automation_enabled /\ ~Override(i)
        /\ HasTemp(i) /\ Temp(i).val = Cfg(i).target_min - Margin
        /\ Zone(i).is_heating = "False"
        /\ ZoneCalls(i) = <<"turn_on">>

\* C6: automation on, no override, target_max < temp < critical_max, heater
\* read as on: exactly one turn_off call for the zone, status COOLING
C6_TurnOffCooling ==
    Ticked =>
        \A i \in Zones :
            (/\ automation_enabled /\ ~Override(i)
             /\ HasTemp(i) /\ Temp(i).val > Cfg(i).target_max
             /\ Temp(i).val < Cfg(i).critical_max
             /\ HeaterOn(i))
                => ZoneCalls(i) = <<"turn_off">> /\ Zone(i).status = STATUS_COOLING

C6_Witness ==
    /\ Ticked
    /\ \E i \in Zones :
        /\ automation_enabled /\ ~Override(i)
        /\ HasTemp(i) /\ Temp(i).val = Cfg(i).target_max + Margin
        /\ HeaterOn(i)
        /\ ZoneCalls(i) = <<"turn_off">>

\* C7: automation on, no override: no switch call and BELOW_TARGET when too
\* cool with the heater on, ABOVE_TARGET when too warm with the heater off,
\* OK anywhere in the closed target band
C7_NoCommandStatuses ==
    Ticked =>
        \A i \in Zones :
            (automation_enabled /\ ~Override(i) /\ NonCritical(i)) =>
                /\ (Temp(i).val < Cfg(i).target_min /\ HeaterOn(i))
                       => Zone(i).status = STATUS_BELOW_TARGET /\ ZoneCalls(i) = <<>>
                /\ (Temp(i).val > Cfg(i).target_max /\ ~HeaterOn(i))
                       => Zone(i).status = STATUS_ABOVE_TARGET /\ ZoneCalls(i) = <<>>
                /\ (Temp(i).val >= Cfg(i).target_min /\ Temp(i).val <= Cfg(i).target_max)
                       => Zone(i).status = STATUS_OK /\ ZoneCalls(i) = <<>>

\* a second tick read a zone exactly at target_min with its heater off
C7_Witness ==
    /\ Ticked
    /\ now = 2 * DEFAULT_UPDATE_INTERVAL
    /\ \E i \in Zones :
        /\ automation_enabled /\ ~Override(i)
        /\ HasTemp(i) /\ Temp(i).val = Cfg(i).target_min
        /\ ~HeaterOn(i)
        /\ Zone(i).status = STATUS_OK

\* C8: set_automation_enabled(True) leaves no zone overridden;
\* set_automation_enabled(False) clears the flag and keeps the override map
C8_EnableClearsOverrides ==
    [][last_op' = "set_automation_enabled" =>
          /\ automation_enabled' => \A i \in Zones : ~DictGet(manual_overrides', i, FALSE)
          /\ ~automation_enabled' => manual_overrides' = manual_overrides]_vars

\* automation was re-enabled after a tick that had found zone 0 overridden
C8_Witness ==
    /\ last_op = "set_automation_enabled"
    /\ automation_enabled
    /\ manual_overrides = EmptyDict
    /\ data.present /\ data.automation_enabled
    /\ HasTemp(0) /\ Temp(0).val < Cfg(0).target_min /\ ~HeaterOn(0)
    /\ ZoneCalls(0) = <<>>

\* C9: set_manual_override changes the override flag of one zone and nothing
\* else: no switch call, and the automation flag, the other zones' flags,
\* the care logs, the throttle map and the snapshot stay as they were
C9_OverrideFrame ==
    [][last_op' = "set_manual_override" =>
          /\ \E i \in Zones :
                /\ i \in DOMAIN manual_overrides'
                /\ \A j \in Zones \ {i} :
                      /\ j \in DOMAIN manual_overrides' <=> j \in DOMAIN manual_overrides
                      /\ j \in DOMAIN manual_overrides
                            => manual_overrides'[j] = manual_overrides[j]
          /\ UNCHANGED <<automation_enabled, calls, notifications, feeding_log,
                         shedding_log, weight_log, last_notifications, data,
                         last_update_success>>]_vars

\* an override was set on one zone while another zone's override was set and
\* a snapshot with a switch call was published
C9_Witness ==
    /\ last_op = "set_manual_override"
    /\ data.present
    /\ calls # <<>>
    /\ \E i \in Zones, j \in Zones :
        i # j /\ Override(i) /\ Override(j)

\* the entity states that give no temperature
AbsentStates ==
    {NoState, State(Unknown), State(Unavailable), State(<<"a", "b", "c">>)}

\* C10: a zone whose sensor is missing, unknown, unavailable or non-numeric
\* gets temperature None and status unknown, no switch call and no alert, and
\* the tick publishes a snapshot with every zone and the atmosphere
C10_AbsentSensorFailsSoft ==
    last_op = "tick" =>
        \A i \in Zones :
            hass_states.temp[i] \in AbsentStates =>
                /\ last_update_success /\ data.present
                /\ data.last_update = now
                /\ DOMAIN data.heat_sources = Zones
                /\ Temp(i) = None
                /\ Zone(i).status = STATUS_UNKNOWN
                /\ ZoneCalls(i) = <<>>
                /\ ZoneAlerts(i) = {}
                /\ hass_states.atmo_temp = AtmoQuietTemp
                      => data.atmosphere.current_temp = Float(CONF_ATMO.target_min_temp)

\* a tick found one zone's sensor non-numeric and reported the other zone
C10_Witness ==
    /\ Ticked
    /\ \E i \in Zones, j \in Zones :
        /\ hass_states.temp[i] = State(<<"a", "b", "c">>)
        /\ Zone(i).status = STATUS_UNKNOWN
        /\ Zone(j).status = STATUS_OK
        /\ data.atmosphere.current_temp # None

\* C11: a zone whose switch entity is missing or unavailable is treated as
\* off: the snapshot's is_heating is the boolean False, and with automation
\* on, no override and critical_min < temp < target_min the tick calls
\* turn_on once and reports HEATING
C11_AbsentSwitchIsOff ==
    Ticked =>
        \A i \in Zones :
            hass_states.switch[i] \in {NoState, State(Unavailable)} =>
                /\ Zone(i).is_heating = "False"
                /\ (/\ automation_enabled /\ ~Override(i)
                    /\ HasTemp(i) /\ Temp(i).val > Cfg(i).critical_min
                    /\ Temp(i).val < Cfg(i).target_min)
                        => ZoneCalls(i) = <<"turn_on">> /\ Zone(i).status = STATUS_HEATING

\* the two texts agree on their first 50 characters
AgreeOnKey(a, b) ==
    \A k \in 1..50 :
        /\ (k <= Len(a)) = (k <= Len(b))
        /\ k <= Len(a) => a[k] = b[k]

\* the throttle map ln holds a time less than the cooldown before t for an
\* alert that agrees with m on its key
SentRecently(ln, m, t) ==
    \E k \in DOMAIN ln : AgreeOnKey(k, m) /\ t - ln[k] < 30 * 60

\* the notifier was called with message m
Delivered(ns, m) == \E k \in 1..Len(ns) : ns[k].message = m

\* the zones snapshot d reports as critically cold, and the alert raised for one
ColdZones(d) == {i \in Zones : d.heat_sources[i].status = STATUS_CRITICAL_LOW}
ColdAlert(d, i) == TooColdMessage(Cfg(i).name, d.heat_sources[i].current_temp)

\* C12: an alert raised by a tick is suppressed exactly when an alert with the
\* same key was sent less than 30 minutes earlier (10 minutes apart: only the
\* first is delivered; 30 or 31 minutes apart: both are)
C12_SuppressedIffRecent ==
    [][(last_op' = "tick" /\ last_update_success')
          => \A i \in ColdZones(data') :
                Delivered(notifications', ColdAlert(data', i))
                    <=> ~SentRecently(last_notifications, ColdAlert(data', i), now')]_vars

\* a tick raised an alert a third of the cooldown after the same alert was
\* sent, and the notifier was not called
C12_Witness ==
    /\ Ticked
    /\ \E i \in ColdZones(data) :
        \E k \in DOMAIN last_notifications :
            /\ AgreeOnKey(k, ColdAlert(data, i))
            /\ now - last_notifications[k] = (30 * 60) \div 3
            /\ notifications = <<>>

\* C13: the time is recorded against the key only when the alert is allowed:
\* a suppressed alert leaves every timestamp as it was, a delivered one
\* records the time of its tick; an alert raised again once the cooldown has
\* passed since the recorded time is delivered; and the notifier is called
\* only with alerts this tick raised, never with one suppressed earlier
C13_SuppressedLeavesTimestamp ==
    [][(last_op' = "tick" /\ last_update_success')
          => /\ \A i \in ColdZones(data') :
                  LET m == ColdAlert(data', i)
                  IN  /\ ~Delivered(notifications', m)
                          => last_notifications' = last_notifications
                      /\ Delivered(notifications', m)
                          => \E k \in DOMAIN last_notifications' :
                                AgreeOnKey(k, m) /\ last_notifications'[k] = now'
                      /\ (\A k \in DOMAIN last_notifications :
                            AgreeOnKey(k, m)
                                => now' - last_notifications[k] >= 30 * 60)
                          => Delivered(notifications', m)
             /\ \A n \in 1..Len(notifications') :
                  \E i \in ColdZones(data') :
                      notifications'[n].message = ColdAlert(data', i)]_vars

\* a tick raised an alert that was suppressed for the second time running at
\* least, and its timestamp is still the time of the delivered one
C13_Witness ==
    /\ Ticked
    /\ notifications = <<>>
    /\ \E i \in ColdZones(data) :
        \E k \in DOMAIN last_notifications :
            /\ AgreeOnKey(k, ColdAlert(data, i))
            /\ now - last_notifications[k] > (30 * 60) \div 3
            /\ now - last_notifications[k] < 30 * 60

\* C14: the throttle key is exactly the first 50 characters of the message:
\* every key recorded is such a prefix; an alert is suppressed whenever an
\* alert agreeing with it on the first 50 characters was sent within the
\* cooldown (texts differing only later share one window); and an alert is
\* suppressed only by such an alert (texts differing within the first 50
\* characters never suppress each other)
C14_KeyIsFirstFifty ==
    [][\A m \in AlertMessages :
          AlertStepOf(m) =>
              /\ \A k \in DOMAIN last_notifications' :
                    /\ Len(k) <= 50
                    /\ \E m2 \in AlertMessages :
                          AgreeOnKey(k, m2) /\ (Len(k) = Len(m2) \/ Len(k) = 50)
              /\ SentRecently(last_notifications, m, now) => ~Delivered(notifications', m)
              /\ ~Delivered(notifications', m) => SentRecently(last_notifications, m, now)]_vars

\* an alert was suppressed while the throttle holds two different keys of
\* full length, both recorded within the cooldown
C14_Witness ==
    /\ last_op = "send_alert"
    /\ notifications = <<>>
    /\ \E k1 \in DOMAIN last_notifications, k2 \in DOMAIN last_notifications :
        /\ k1 # k2
        /\ Len(k1) = 50 /\ Len(k2) = 50
        /\ now - last_notifications[k1] < 30 * 60
        /\ now - last_notifications[k2] < 30 * 60
    /\ \A k \in DOMAIN last_notifications : Len(k) = 50

\* C15: whatever log_feeding, log_shedding and log_weight calls were made, the
\* engine's feeding and weight logs hold at most 50 entries and its shedding
\* log at most 20
C15_LogsCapped ==
    /\ Len(feeding_log) <= 50
    /\ Len(weight_log) <= 50
    /\ Len(shedding_log) <= 20

\* the 21st shedding was logged and the log holds 20 entries, next to a
\* feeding log that has just reached 50
C15_Witness ==
    /\ last_op = "log_shedding"
    /\ NewEntries(shedding_log) >= 2
    /\ Len(shedding_log) = 20
    /\ NewEntries(feeding_log) >= 1
    /\ Len(feeding_log) = 50

\* log2 is log with one event appended at time t: the new event is last, and
\* when log was full exactly its oldest entry is gone
AppendedTo(log, log2, cap, t) ==
    /\ log2 # <<>>
    /\ log2[Len(log2)].date = t
    /\ log2 = (IF Len(log) >= cap THEN Tail(log) ELSE log) \o <<log2[Len(log2)]>>

\* C16: each log keeps the last min(n, cap) appended events in order: an
\* append puts the new event last and, on a full log, removes exactly the
\* oldest entry; it leaves the other two logs as they are; and nothing but an
\* append changes a log
C16_LogsKeepLatest ==
    [][/\ last_op' = "log_feeding"
            => /\ AppendedTo(feeding_log, feeding_log', 50, now')
               /\ UNCHANGED <<shedding_log, weight_log>>
       /\ last_op' = "log_shedding"
            => /\ AppendedTo(shedding_log, shedding_log', 20, now')
               /\ UNCHANGED <<feeding_log, weight_log>>
       /\ last_op' = "log_weight"
            => /\ AppendedTo(weight_log, weight_log', 50, now')
               /\ UNCHANGED <<feeding_log, shedding_log>>
       /\ last_op' \notin {"log_feeding", "log_shedding", "log_weight"}
            => UNCHANGED <<feeding_log, shedding_log, weight_log>>]_vars

\* the 51st feeding was logged: the log holds 50 entries, the oldest of the
\* 49 earlier ones is gone and the new one is last, and the other logs are
\* not empty
C16_Witness ==
    /\ last_op = "log_feeding"
    /\ Len(feeding_log) = 50
    /\ feeding_log[1] = PastFeedings(49)[2]
    /\ feeding_log[50].date = now
    /\ weight_log # <<>>
    /\ shedding_log # <<>>

\* C17: the published snapshot, the contents and length of its three care
\* logs included, changes only when a tick publishes a new one, whatever
\* mutators are called in between
C17_SnapshotImmutable ==
    [][last_op' # "tick" => data' = data]_vars

\* C20: a log_weight call with a weight of 0 or less, or with a unit other
\* than g, kg, oz, lb, is rejected with a validation failure and leaves the
\* weight log and the other logs as they were
C20_InvalidWeightRejected ==
    [][\A weight \in WeightsGiven, unit \in UnitsGiven :
          ((weight <= 0 \/ unit \notin {"g", "kg", "oz", "lb"})
                /\ LogWeightCall(weight, unit))
              => /\ last_op' = "log_weight_invalid"
                 /\ UNCHANGED <<feeding_log, shedding_log, weight_log>>]_vars

\* C18: a tick in which a switch call raises ends in UpdateFailed: it
\* publishes nothing and the previous snapshot stays; a tick in which no
\* switch call raises, the one after a failed tick included, publishes a
\* snapshot of its own time
C18_FailedTickKeepsSnapshot ==
    [][last_op' = "tick"
          => IF \E k \in 1..Len(calls') : ~calls'[k].ok
             THEN ~last_update_success' /\ data' = data
             ELSE last_update_success' /\ data'.present /\ data'.last_update = now']_vars

\* a tick failed on a switch call and the snapshot is still the one an
\* earlier tick published
C18_Witness ==
    /\ last_op = "tick"
    /\ ~last_update_success
    /\ \E k \in 1..Len(calls) : ~calls[k].ok
    /\ data.present
    /\ data.last_update < now

\* C19: the entry points exclude one another: while a tick is in progress no
\* mutator changes the flag, the overrides or the logs, and the snapshot a
\* tick publishes carries the automation flag that its zone decisions were
\* made with, which is the flag at the moment of publishing
C19_EntryPointsExclusive ==
    [][/\ (inflight.active /\ inflight'.active)
            => UNCHANGED <<automation_enabled, manual_overrides,
                           feeding_log, shedding_log, weight_log>>
       /\ (inflight.active /\ last_op' = "tick")
            => data'.automation_enabled = automation_enabled']_vars

C22_NotifierFailureContained ==
    (/\ last_op = "tick"
     /\ \E n \in 1..Len(notifications) : ~notifications[n].ok
     /\ \A k \in 1..Len(calls) : calls[k].ok)
        => /\ last_update_success
           /\ data.present
           /\ data.last_update = now
           /\ DOMAIN data.heat_sources = Zones
           /\ \A i \in Zones :
                (hass_states.temp[i] = State(IntStr(Cfg(i).target_min - Margin))
                    /\ hass_states.switch[i] = State(STATE_OFF))
                    => ZoneCalls(i) = <<"turn_on">> /\ Zone(i).status = STATUS_HEATING
           /\ hass_states.atmo_temp = AtmoQuietTemp
                => data.atmosphere.current_temp = Float(CONF_ATMO.target_min_temp)
           /\ \A n1, n2 \in 1..Len(notifications) :
                notifications[n1].message = notifications[n2].message => n1 = n2

\* the alert for the first zone failed at the notifier, the zone after it was
\* turned on and the snapshot was published
C22_Witness ==
    /\ Ticked
    /\ data.last_update = now
    /\ Len(notifications) = 1
    /\ ~notifications[1].ok
    /\ \E i \in Zones, j \in Zones :
        /\ i < j
        /\ Zone(i).status = STATUS_CRITICAL_LOW
        /\ Zone(j).status = STATUS_HEATING
        /\ ZoneCalls(j) = <<"turn_on">>

\* the notifier calls whose message starts with prefix
AlertsWith(ns, prefix) ==
    {n \in 1..Len(ns) :
        /\ Len(ns[n].message) >= Len(prefix)
        /\ SubSeq(ns[n].message, 1, Len(prefix)) = prefix}

\* reading r is a number at or beyond one of the critical bounds lo, hi
AtmoCritical(r, lo, hi) == r.kind = "float" /\ (r.val <= lo \/ r.val >= hi)

\* C23: processing the atmosphere never calls a switch service; it raises an
\* alert for the temperature exactly when the reading is at or beyond a
\* critical temperature bound and, independently, one for the humidity
\* exactly when that reading is at or beyond a critical humidity bound; each
\* reaches the notifier unless the throttle holds it back, whatever the other
\* reading is, a missing one included
C23_AtmosphereAlertsOnly ==
    [][last_op' = "tick"
          => LET t == data'.atmosphere.current_temp
                 h == data'.atmosphere.current_humidity
                 tmsg == IF t.val <= CONF_ATMO.critical_min_temp
                         THEN TankTempLowMessage(t) ELSE TankTempHighMessage(t)
                 hmsg == IF h.val <= CONF_ATMO.critical_min_humidity
                         THEN TankHumidityLowMessage(h) ELSE TankHumidityHighMessage(h)
                 tcrit == AtmoCritical(t, CONF_ATMO.critical_min_temp,
                                       CONF_ATMO.critical_max_temp)
                 hcrit == AtmoCritical(h, CONF_ATMO.critical_min_humidity,
                                       CONF_ATMO.critical_max_humidity)
                 talerts == AlertsWith(notifications', Chars_CRITICAL \o Chars_Tank_temperature)
                 halerts == AlertsWith(notifications', Chars_CRITICAL \o Chars_Tank_humidity)
             IN  /\ last_update_success'
                 /\ calls' = <<>>
                 /\ talerts # {} => tcrit
                 /\ halerts # {} => hcrit
                 /\ (tcrit /\ ~SentRecently(last_notifications, tmsg, now'))
                        => \E n \in talerts : notifications'[n].message = tmsg
                 /\ (hcrit /\ ~SentRecently(last_notifications, hmsg, now'))
                        => \E n \in halerts : notifications'[n].message = hmsg
                 /\ Cardinality(talerts) <= 1 /\ Cardinality(halerts) <= 1]_vars

\* one tick found the temperature exactly at its critical minimum and the
\* humidity exactly at its critical maximum: two alerts, no switch call
C23_Witness ==
    /\ Ticked
    /\ data.atmosphere.current_temp = Float(CONF_ATMO.critical_min_temp)
    /\ data.atmosphere.current_humidity = Float(CONF_ATMO.critical_max_humidity)
    /\ Len(notifications) = 2
    /\ AlertsWith(notifications, Chars_CRITICAL \o Chars_Tank_temperature) # {}
    /\ AlertsWith(notifications, Chars_CRITICAL \o Chars_Tank_humidity) # {}
    /\ calls = <<>>

\* C24: the weight-loss sensor flags nothing while the snapshot's weight log
\* has fewer than two entries, and otherwise flags a loss exactly when
\* (previous - current) / previous * 100 > 10 for the last two entries:
\* 100 to 85 is flagged, 100 to 91 and 100 to 90 are not
C24_WeightLossOverTenPercent ==
    LET wl == data.care.weight_log
        flagged == WeightLossIsOn(data)
    IN  /\ (~data.present \/ Len(wl) < 2) => flagged = "False"
        /\ (data.present /\ Len(wl) >= 2) =>
              LET current == wl[Len(wl)].weight
                  previous == wl[Len(wl) - 1].weight
              IN  /\ flagged \in {"True", "False"}
                  /\ flagged = "True" <=> (previous - current) * 100 > 10 * previous
                  /\ (previous = 100 /\ current = 85) => flagged = "True"
                  /\ (previous = 100 /\ current \in {90, 91}) => flagged = "False"

\* C25: an entry whose zone bounds violate critical_min < target_min <
\* target_max < critical_max is rejected when it is set up, so every zone of
\* a snapshot the engine publishes has its bounds in that order
C25_ConfigOrderingEnforced ==
    data.present =>
        \A i \in DOMAIN data.heat_sources :
            /\ data.heat_sources[i].critical_min < data.heat_sources[i].target_min
            /\ data.heat_sources[i].target_min < data.heat_sources[i].target_max
            /\ data.heat_sources[i].target_max < data.heat_sources[i].critical_max

\* the tick that ran last ended in UpdateFailed
FailedTick == last_op = "tick" /\ ~last_update_success

\* C26 as claimed: a tick that ends in UpdateFailed has applied no heater
\* command to any zone and recorded no throttle timestamp
C26_FailedTickNoSideEffects ==
    FailedTick =>
        /\ \A k \in 1..Len(calls) : ~calls[k].ok
        /\ \A key \in DOMAIN last_notifications : last_notifications[key] # now

\* C26 amended: a tick that ends in UpdateFailed stopped at the switch call
\* that raised: the commands and alerts of the zones before it were carried
\* out and stay (their throttle timestamps are recorded), the zones after it
\* and the atmosphere were not processed, and only the snapshot is left as it
\* was
C26_FailedTickKeepsEarlierEffects ==
    FailedTick =>
        /\ calls # <<>>
        /\ ~calls[Len(calls)].ok
        /\ \A k \in 1..(Len(calls) - 1) : calls[k].ok
        /\ \A f \in Zones, i \in Zones :
              (Cfg(f).switch_entity = calls[Len(calls)].entity_id /\ i > f)
                  => ZoneCalls(i) = <<>> /\ ZoneAlerts(i) = {}
        /\ \A n \in 1..Len(notifications) :
              \E key \in DOMAIN last_notifications :
                  /\ AgreeOnKey(key, notifications[n].message)
                  /\ last_notifications[key] = now
        /\ ~data.present \/ data.last_update < now

\* the switch call of the second zone raised after the first zone's alert
\* was delivered and its timestamp recorded
C26_Witness ==
    /\ FailedTick
    /\ Len(notifications) = 1
    /\ \E key \in DOMAIN last_notifications : last_notifications[key] = now
    /\ Len(calls) = 1
    /\ calls[1].entity_id = Cfg(1).switch_entity

\* the text of a critically-cold alert of zone i up to its reading
ColdPrefix(i) == Chars_CRITICAL \o Cfg(i).name \o Chars_too_cold

\* key starts with the text p
StartsWith(key, p) ==
    /\ Len(key) >= Len(p)
    /\ \A k \in 1..Len(p) : key[k] = p[k]

\* C27 as claimed: while a zone stays critically cold over consecutive ticks
\* a notification for it is delivered only when none was sent for that zone,
\* whatever its reading, less than 30 minutes earlier
C27_OnePerWindowPerZone ==
    [][(last_op' = "tick" /\ last_update_success')
          => \A i \in ColdZones(data') :
                Delivered(notifications', ColdAlert(data', i))
                    => ~\E key \in DOMAIN last_notifications :
                          /\ StartsWith(key, ColdPrefix(i))
                          /\ now' - last_notifications[key] < 30 * 60]_vars

\* C27 amended: while a zone with a short name stays critically cold over
\* consecutive ticks, at most one notification per reading is delivered per
\* 30-minute window: a tick's alert is delivered exactly when no alert with
\* the same reading was sent less than 30 minutes earlier, so a tick with a
\* different reading is notified within the window of the other reading
C27_OnePerWindowPerReading ==
    [][(last_op' = "tick" /\ last_update_success')
          => \A i \in ColdZones(data') :
                /\ Len(ColdAlert(data', i)) <= 50
                /\ Delivered(notifications', ColdAlert(data', i))
                      <=> ~\E key \in DOMAIN last_notifications :
                             /\ key = ColdAlert(data', i)
                             /\ now' - last_notifications[key] < 30 * 60
                /\ Len(notifications') <= 1]_vars

\* a tick delivered an alert for a zone while an alert for the same zone
\* with another reading had been sent less than 30 minutes earlier
C27_Witness ==
    /\ Ticked
    /\ \E i \in ColdZones(data) :
        /\ Delivered(notifications, ColdAlert(data, i))
        /\ \E key \in DOMAIN last_notifications :
              /\ StartsWith(key, ColdPrefix(i))
              /\ key # ColdAlert(data, i)
              /\ now - last_notifications[key] > 0
              /\ now - last_notifications[key] < 30 * 60

\* C28: the time is recorded against the key before the notifier is called,
\* so a failed delivery starts the cooldown all the same: with a notifier
\* that fails every time, each call of it leaves its key recorded with the
\* time of the tick, and a tick that raises the identical alert less than 30
\* minutes after such a call does not call the notifier again
C28_FailedDeliveryStartsCooldown ==
    [][(last_op' = "tick" /\ last_update_success')
          => /\ \A n \in 1..Len(notifications') :
                  /\ ~notifications'[n].ok
                  /\ \E key \in DOMAIN last_notifications' :
                        /\ AgreeOnKey(key, notifications'[n].message)
                        /\ last_notifications'[key] = now'
             /\ \A i \in ColdZones(data') :
                  SentRecently(last_notifications, ColdAlert(data', i), now')
                      => /\ notifications' = <<>>
                         /\ last_notifications' = last_notifications]_vars

\* no notification was ever delivered, and a tick raised an alert that was
\* suppressed by the time recorded at a failed delivery of the same alert
C28_Witness ==
    /\ Ticked
    /\ notifications = <<>>
    /\ \E i \in ColdZones(data) :
        \E key \in DOMAIN last_notifications :
            /\ AgreeOnKey(key, ColdAlert(data, i))
            /\ now - last_notifications[key] >= DEFAULT_UPDATE_INTERVAL
            /\ now - last_notifications[key] < 30 * 60

\* C29: a tick leaves the automation flag, the override map and the three
\* care logs as they were; each of them changes only in a step of its own
\* mutator, and an override that is set stays set until
\* set_manual_override(i, false) or set_automation_enabled(true)
C29_TickFramesFlagsAndLogs ==
    [][/\ last_op' = "tick"
            => UNCHANGED <<automation_enabled, manual_overrides,
                           feeding_log, shedding_log, weight_log>>
       /\ automation_enabled' # automation_enabled
            => last_op' = "set_automation_enabled"
       /\ feeding_log' # feeding_log => last_op' = "log_feeding"
       /\ shedding_log' # shedding_log => last_op' = "log_shedding"
       /\ weight_log' # weight_log => last_op' = "log_weight"
       /\ \A i \in Zones :
            (Override(i) /\ ~Override(i)')
                => \/ last_op' = "set_manual_override"
                   \/ last_op' = "set_automation_enabled" /\ automation_enabled']_vars

\* the last of the scheduled ticks has run with automation on, an override
\* set on a cool zone whose heater is off and all three logs filled: the
\* override and the logs are still there and the zone was not commanded
C29_Witness ==
    /\ Ticked
    /\ now = MaxTicks * DEFAULT_UPDATE_INTERVAL
    /\ automation_enabled
    /\ \E i \in Zones :
        /\ Override(i)
        /\ HasTemp(i) /\ Temp(i).val < Cfg(i).target_min
        /\ ~HeaterOn(i)
        /\ ZoneCalls(i) = <<>>
    /\ feeding_log # <<>> /\ shedding_log # <<>> /\ weight_log # <<>>

\* C30: once the manual turn-on of a zone has started, and for as long as
\* its override is set, no tick commands that zone's switch off
C30_ManualTurnOnNotUndone ==
    last_op = "tick"
        => \A i \in Zones :
              (i \in inflight.manual \/ Override(i))
                  => \A k \in 1..Len(ZoneCalls(i)) : ZoneCalls(i)[k] # "turn_off"

====
